---------------------------- MODULE Spec2Model ----------------------------
(***************************************************************************)
(* Model of the Steam library JSON -> Markdown converter                    *)
(* (app/src/json-to-md.ts): the Source Locator (findLatestJsonFile), the    *)
(* Enrichment Client (fetchSteamDetails), the Template Engine               *)
(* (renderTemplate) and the Pipeline Orchestrator (runConversion).          *)
(*                                                                         *)
(* Text is a sequence of tokens.  The characters "$", "{", "}" and the      *)
(* double quote are always tokens of their own in templates and in data     *)
(* (a double quote inside a slot's expression apart); every other token is  *)
(* a non-empty run of characters holding none of them.  Under that          *)
(* discipline the regular expression of renderTemplate and the substring    *)
(* tests of the skip check act on tokens exactly as they act on             *)
(* characters.  Game names are sequences of single characters.              *)
(*                                                                         *)
(* Six specifications share the actions of runConversion: Spec (short       *)
(* batches, the built-in template and one custom template, every response   *)
(* of the remote source), SpecRender (one record before its render, every   *)
(* template of up to MaxParts parts), SpecBatchRender (two records, slots    *)
(* that assign to the global object or hold a brace), SpecRate (one record  *)
(* of up to MaxTotal achievements), SpecProgress (batches of up to 101      *)
(* records without identifier) and SpecMenu (the menu of cli.ts with the    *)
(* scraper before the conversion).                                          *)
(***************************************************************************)
EXTENDS Integers, Sequences, FiniteSets, TLC

VARIABLES
    settingsFile,   \* scraper-settings.json: "absent", "corrupt", "noTemplate", "custom"
    inputDir,       \* output/raw_data: [exists, entries], entries in readdir order
    files,          \* output/obsidian_library: safe name -> [exists, text]
    run,            \* number of the current invocation of runConversion (0: none yet)
    pc,             \* position of runConversion
    template,       \* the template of the current run
    games,          \* the batch parsed by the current run
    jsonPath,       \* what findLatestJsonFile returned to the current run
    index,          \* 1-based position of the loop in games
    storeData,      \* storeData of the current iteration
    fileContent,    \* fileContent of the current iteration
    recState,       \* per record of the current run: the state it has reached
    netCalls,       \* per record of the current run: https.get requests issued
    writes,         \* per record of the current run: writeFileSync calls that returned
    sleeps,         \* per record of the current run: sleep(DELAY_MS) calls completed
    inFlight,       \* number of https requests issued and not yet settled
    resp,           \* what the remote source did for the request of this iteration
    sinceFetch,     \* ms since the start of the last fetch attempt of this run, capped
    minGap,         \* smallest gap seen between two consecutive fetch starts, capped
    console,        \* per record of the current run: the status line printed
    outcome,        \* how the current run ended: "none", "success", "noBatch"
    startFiles,     \* the output directory as it was when the current run began
    evalLog,        \* the slots renderTemplate evaluated in this iteration, in
                    \* order: [code, ok], ok false where "Template Error" was printed
    checkpoints,    \* the record numbers behind which "--- Progress" was printed
    rendered,       \* per record of the current run: the text renderTemplate
                    \* returned for it (empty before)
    settingsLog,    \* what "1. Load Settings" of the current run printed
    globalThis,     \* the property n of the global object of the process
                    \* (0: not set), which the body of a `new Function` reaches
    scrapeResults   \* app/scrape_results: the files the scraper has written

vars == << settingsFile, inputDir, files, run, pc, template, games, jsonPath, index,
           storeData, fileContent, recState, netCalls, writes, sleeps,
           inFlight, resp, sinceFetch, minGap, console, outcome, startFiles,
           evalLog, checkpoints, rendered, settingsLog, globalThis, scrapeResults >>

-----------------------------------------------------------------------------
(* Bounds of the model *)

MaxGames == 2      \* longest batch
MaxRuns  == 2      \* invocations of runConversion on the same directories
MaxScrapes == 2    \* batch files on disk, SpecMenu
MaxParts == 3      \* parts (literal runs and slots) of a user's template
MaxTotal == 40     \* achievements a record counts, SpecRate

(* Program constants *)

DELAY_MS == 1200

-----------------------------------------------------------------------------
(* JavaScript values *)

Undefined == [t |-> "undefined"]
Null      == [t |-> "null"]
JSFalse   == [t |-> "boolean", v |-> FALSE]
Num(n)    == [t |-> "number", v |-> n]
Bool(b)   == [t |-> "boolean", v |-> b]
Str(text) == [t |-> "string", v |-> text]
Arr(seq)  == [t |-> "array", v |-> seq]

\* ToBoolean, as used by `if (x)`, `!x`, `x ? a : b`, `x || y`
Truthy(x) ==
    CASE x.t = "undefined" -> FALSE
      [] x.t = "null"      -> FALSE
      [] x.t = "boolean"   -> x.v
      [] x.t = "number"    -> x.v # 0
      [] x.t = "string"    -> x.v # << >>
      [] OTHER             -> TRUE

Min(a, b) == IF a < b THEN a ELSE b

-----------------------------------------------------------------------------
(* Text helpers *)

\* String.prototype.includes
Includes(text, pat) ==
    \E i \in 1..(Len(text) - Len(pat) + 1) :
        SubSeq(text, i, i + Len(pat) - 1) = pat

\* Array.prototype.join(sep) over texts
RECURSIVE Join(_, _)
Join(ss, sep) ==
    IF ss = << >> THEN << >>
    ELSE IF Len(ss) = 1 THEN ss[1]
    ELSE ss[1] \o sep \o Join(Tail(ss), sep)

-----------------------------------------------------------------------------
(* sanitizeFilename *)

UnsafeChars == {"<", ">", ":", "\"", "/", "\\", "|", "?", "*"}
WhiteSpace  == {" ", "\t", "\n"}

RECURSIVE StripUnsafe(_)
StripUnsafe(name) ==
    IF name = << >> THEN << >>
    ELSE IF Head(name) \in UnsafeChars THEN StripUnsafe(Tail(name))
    ELSE << Head(name) >> \o StripUnsafe(Tail(name))

RECURSIVE TrimStart(_)
TrimStart(s) ==
    IF s # << >> /\ Head(s) \in WhiteSpace THEN TrimStart(Tail(s)) ELSE s

RECURSIVE TrimEnd(_)
TrimEnd(s) ==
    IF s # << >> /\ s[Len(s)] \in WhiteSpace
    THEN TrimEnd(SubSeq(s, 1, Len(s) - 1)) ELSE s

\* a sanitizer that takes the white space out of the name as well
SanitizeDropsSpaces(name) ==
    SelectSeq(StripUnsafe(name), LAMBDA ch : ch \notin WhiteSpace)

\* name.replace(/[<>:"/\\|?*]/g, '').trim()
sanitizeFilename(name) == TrimEnd(TrimStart(StripUnsafe(name)))

-----------------------------------------------------------------------------
(* findLatestJsonFile *)

\* a filter on the extension alone
IsJsonName(f) == f # << >> /\ f[Len(f)] = ".json"

\* f.endsWith('.json') && f.includes('SteamScrape')
IsBatchName(f) ==
    /\ f # << >>
    /\ f[Len(f)] = ".json"
    /\ Includes(f, << "SteamScrape" >>)

RECURSIVE FilterBatch(_)
FilterBatch(entries) ==
    IF entries = << >> THEN << >>
    ELSE IF IsBatchName(Head(entries).name)
         THEN << Head(entries) >> \o FilterBatch(Tail(entries))
         ELSE FilterBatch(Tail(entries))

\* the comparator (a, b) => b.time - a.time: negative when a sorts before b
CompareTime(a, b) == b.time - a.time

\* insert e into the sorted list, behind every element it does not sort before
RECURSIVE InsertSorted(_, _)
InsertSorted(sorted, e) ==
    IF sorted = << >> THEN << e >>
    ELSE IF CompareTime(e, Head(sorted)) < 0 THEN << e >> \o sorted
    ELSE << Head(sorted) >> \o InsertSorted(Tail(sorted), e)

\* Array.prototype.sort with CompareTime (a stable sort)
RECURSIVE SortByTime(_)
SortByTime(entries) ==
    IF entries = << >> THEN << >>
    ELSE InsertSorted(SortByTime(SubSeq(entries, 1, Len(entries) - 1)),
                      entries[Len(entries)])

\* the element of the sorted list that is returned: files[files.length - 1]
PickIndex(sorted) == Len(sorted)

\* the directory entry findLatestJsonFile returns, or Null
findLatestJsonFile(dir) ==
    IF ~dir.exists THEN Null
    ELSE LET sorted == SortByTime(FilterBatch(dir.entries))
         IN  IF Len(sorted) > 0
             THEN [t |-> "entry", v |-> sorted[PickIndex(sorted)]]
             ELSE Null

-----------------------------------------------------------------------------
(* fetchSteamDetails *)

\* the envelope's data taken without a look at its success flag
ParseEnvelopeAnyData(appId, body) ==
    IF ~body.parses THEN Null
    ELSE IF body.value.t # "object" THEN Null
    ELSE IF appId \in DOMAIN body.value.entries
         THEN body.value.entries[appId].data
         ELSE Null

\* JSON.parse(data); json[appId] && json[appId].success ? json[appId].data : null
\* (a body that does not parse, or a json of null, ends in the catch)
ParseEnvelope(appId, body) ==
    IF ~body.parses THEN Null
    ELSE IF body.value.t # "object" THEN Null
    ELSE IF appId \in DOMAIN body.value.entries
             /\ body.value.entries[appId].success
         THEN body.value.entries[appId].data
         ELSE Null

\* what the promise resolves to once the remote source has done r
\* (the res 'end' handler, or the request's 'error' handler)
FetchResult(appId, r) ==
    IF r.kind = "error" THEN Null
    ELSE ParseEnvelope(appId, r.body)

\* the guard of fetchSteamDetails: !appId || appId === 0
ShortCircuits(appId) == ~Truthy(appId) \/ appId = Num(0)

-----------------------------------------------------------------------------
(* Data prep for the template (runConversion, "Data Prep for Template") *)

\* game.playtime === false ? 0 : game.playtime
PrepPlaytime(game) == IF game.playtime = JSFalse THEN Num(0) ELSE game.playtime

\* Numbers are IEEE 754 doubles: 53 significant bits, every operation rounded
\* to the nearest double, ties to the even one.  A number is written in
\* binary, bits[1..point] before the binary point and the rest behind it.
Precision == 53

\* the digits are worked out eight at a time
Byte == 8

\* n >= 0 in binary, no leading zero
RECURSIVE IntBits(_)
IntBits(n) == IF n = 0 THEN << >> ELSE Append(IntBits(n \div 2), n % 2)

\* the last w binary digits of n
Bits(n, w) == [i \in 1..w |-> (n \div 2^(w - i)) % 2]

RECURSIVE BitsToInt(_)
BitsToInt(b) ==
    IF b = << >> THEN 0
    ELSE 2 * BitsToInt(SubSeq(b, 1, Len(b) - 1)) + b[Len(b)]

\* n bytes of r / y behind the binary point (0 <= r < y), fewer when the
\* expansion ends, and what is left of the division
RECURSIVE FracBits(_, _, _)
FracBits(r, y, n) ==
    IF n = 0 \/ r = 0 THEN [bits |-> << >>, rem |-> r]
    ELSE LET rest == FracBits((2^Byte * r) % y, y, n - 1)
         IN  [bits |-> Bits((2^Byte * r) \div y, Byte) \o rest.bits,
              rem |-> rest.rem]

\* the position of the first 1 from position k on; 0 if there is none
LeadingOne(b, k) ==
    LET ones == { i \in k..Len(b) : b[i] = 1 }
    IN  IF ones = {} THEN 0 ELSE CHOOSE i \in ones : \A j \in ones : i <= j

\* b plus one unit of its last place
Increment(b) ==
    LET zeros == { i \in 1..Len(b) : b[i] = 0 }
        z == CHOOSE i \in zeros : \A j \in zeros : j <= i
    IN  IF zeros = {} THEN << 1 >> \o [i \in 1..Len(b) |-> 0]
        ELSE [i \in 1..Len(b) |-> IF i < z THEN b[i] ELSE IF i = z THEN 1 ELSE 0]

\* the double nearest to v, inexact telling that v stands for a value a
\* little above its bits
RoundNearestEven(v, inexact) ==
    LET p == LeadingOne(v.bits, 1)
        last == p + Precision - 1
    IN  IF p = 0 \/ Len(v.bits) < last \/ (Len(v.bits) = last /\ ~inexact)
        THEN v
        ELSE LET kept == SubSeq(v.bits, 1, last)
                 half == Len(v.bits) > last /\ v.bits[last + 1] = 1
                 more == inexact \/ LeadingOne(v.bits, last + 2) # 0
                 up == half /\ (more \/ kept[last] = 1)
                 bits == IF up THEN Increment(kept) ELSE kept
             IN  [bits |-> bits, point |-> v.point + Len(bits) - last]

\* x / y for integers x >= 0, y > 0
Divide(x, y) ==
    LET whole == IntBits(x \div y)
        frac == FracBits(x % y, y, (2 * Precision) \div Byte)
    IN  RoundNearestEven([bits |-> whole \o frac.bits, point |-> Len(whole)],
                         frac.rem # 0)

\* the bits of b times k (0 < k < 128), with what goes beyond the first bit
RECURSIVE TimesBits(_, _)
TimesBits(b, k) ==
    IF b = << >> THEN [bits |-> << >>, carry |-> 0]
    ELSE LET w == IF Len(b) < Byte THEN Len(b) ELSE Byte
             low == TimesBits(SubSeq(b, w + 1, Len(b)), k)
             t == BitsToInt(SubSeq(b, 1, w)) * k + low.carry
         IN  [bits |-> Bits(t % 2^w, w) \o low.bits, carry |-> t \div 2^w]

\* v * k
Times(v, k) ==
    LET prod == TimesBits(v.bits, k)
        top == IntBits(prod.carry)
    IN  RoundNearestEven([bits |-> top \o prod.bits, point |-> Len(top) + v.point],
                         FALSE)

\* Math.round(v), v >= 0: the nearest integer, a half going up
MathRound(v) ==
    BitsToInt(SubSeq(v.bits, 1, v.point))
      + (IF Len(v.bits) > v.point /\ v.bits[v.point + 1] = 1 THEN 1 ELSE 0)

\* Math.round((x / y) * 100) for integers x >= 0, y > 0
RoundPercent(x, y) == MathRound(Times(Divide(x, y), 100))

\* game.totalAchievements > 0 ? Math.round((my / total) * 100) : 0
PrepCompletionRate(game) ==
    IF game.totalAchievements > 0
    THEN RoundPercent(game.myAchievements, game.totalAchievements)
    ELSE 0

HasObject(sd) == sd.t = "object"

\* storeData?.release_date present
HasReleaseDate(sd) == HasObject(sd) /\ sd.release_date.t = "object"

\* isReleased = !storeData.release_date.coming_soon
PrepIsReleased(sd) ==
    IF HasReleaseDate(sd) THEN ~sd.release_date.coming_soon ELSE FALSE

\* new Date(date): the ISO day when it parses, else the raw date string
PrepReleaseDateStr(sd) ==
    IF HasReleaseDate(sd)
    THEN IF sd.release_date.iso.t = "string"
         THEN sd.release_date.iso.v
         ELSE sd.release_date.date
    ELSE << >>

\* storeData?.categories?.map(c => c.description) || [], plus the controller line
PrepSteamFeatures(sd) ==
    LET base == IF HasObject(sd) /\ sd.categories.t = "array"
                THEN sd.categories.v ELSE << >>
    IN  IF HasObject(sd) /\ sd.controller_support = Str(<< "full" >>)
        THEN Append(base, "Full Controller Support")
        ELSE base

\* the four replacements of the description clean-up, token by token
CleanToken(tok) ==
    CASE tok = "&quot;" -> << "\"" >>
      [] tok = "&amp;"  -> << "&" >>
      [] tok = "<br>"   -> << "\n" >>
      [] tok \in {"<b>", "</b>", "<i>", "</i>"} -> << >>
      [] OTHER -> << tok >>

RECURSIVE CleanText(_)
CleanText(text) ==
    IF text = << >> THEN << >>
    ELSE CleanToken(Head(text)) \o CleanText(Tail(text))

\* summary = storeData?.short_description || "", cleaned
PrepSummary(sd) ==
    IF HasObject(sd) /\ Truthy(sd.short_description)
    THEN CleanText(sd.short_description.v)
    ELSE << >>

\* toWikiLink: `  - "[[${val.replace(/"/g, '\\"')}]]"`
toWikiLink(val) ==
    << "  - ", "\"", "[[" \o (IF val = "\"" THEN "\\\"" ELSE val) \o "]]", "\"" >>

\* formatDuration(ms), ms >= 0
formatDuration(ms) ==
    LET totalSeconds == (ms + 999) \div 1000
        minutes == totalSeconds \div 60
        seconds == totalSeconds % 60
        minStr == IF minutes = 1 THEN "1 minute" ELSE ToString(minutes) \o " minutes"
        secStr == IF seconds = 1 THEN "1 second" ELSE ToString(seconds) \o " seconds"
    IN  << minStr \o " and " \o secStr >>

\* the context object of one record
Context(game, sd) ==
    [ game           |-> game,
      storeData      |-> sd,
      playtime       |-> PrepPlaytime(game),
      completionRate |-> PrepCompletionRate(game),
      releaseDateStr |-> PrepReleaseDateStr(sd),
      isReleased     |-> PrepIsReleased(sd),
      steamFeatures  |-> PrepSteamFeatures(sd),
      summary        |-> PrepSummary(sd) ]

-----------------------------------------------------------------------------
(* The expressions that occur in the templates of the model.  An expression *)
(* is evaluated by `new Function(...keys, "return " + code)` against the    *)
(* context; what each one yields is written out below, and a text that is   *)
(* none of them is an expression that raises (an unknown identifier).       *)

xReleaseDateStr == "releaseDateStr"
xDevelopers == "storeData?.developers?.map(d => toWikiLink(d)).join('\\n') || \"\""
xPublishers == "storeData?.publishers?.map(p => toWikiLink(p)).join('\\n') || \"\""
xGenres     == "storeData?.genres?.map(g => toWikiLink(g.description)).join('\\n') || \"\""
xAppID      == "game.steamAppID"
xIsReleased == "isReleased"
xMetacritic == "storeData?.metacritic?.score || 0"
xPlayed     == "playtime > 0"
xPlaytime   == "playtime"
xTotalAch   == "game.totalAchievements"
xMyAch      == "game.myAchievements"
xCompletion == "completionRate"
xStatusTag  == "playtime > 0 ? (playtime > 2 ? \"status/playing\" : \"status/backlog\") : \"status/wishlist\""
xHeader     == "storeData?.header_image || \"\""
xSummary    == "summary"
xStatus     == "playtime > 0 ? (playtime > 2 ? \"Playing\" : \"Backlog\") : \"Wishlist/Backlog\""
xDuration   == "formatDuration(playtime * 3600000)"
xLastPlayed == "game.lastPlayed ? new Date(Number(game.lastPlayed) * 1000).toLocaleDateString() : \"Never\""
xName       == "game.name"
xSlugify    == "slugify(game.name)"
xStoreData  == "storeData"
xFeatures   == "steamFeatures"
xGame       == "game"
xNow        == "Date.now()"
xCwd        == "process.cwd()"
xCheat      == "(game.myAchievements = game.totalAchievements)"
xCount      == "(globalThis.n = (globalThis.n || 0) + 1)"

\* storeData?.<list>?.map(toWikiLink).join('\n') || ""
RECURSIVE MapWikiLink(_)
MapWikiLink(list) ==
    IF list = << >> THEN << >>
    ELSE << toWikiLink(Head(list)) >> \o MapWikiLink(Tail(list))

WikiLinks(sd, field) ==
    IF HasObject(sd) /\ sd[field].t = "array"
    THEN Str(Join(MapWikiLink(sd[field].v), << "\n" >>))
    ELSE Str(<< >>)

Returned(v) == [ok |-> TRUE, val |-> v]
Raised      == [ok |-> FALSE, val |-> Undefined]

\* what an expression finds outside the context: the clock behind Date (a
\* binding of the context) and the process behind the global object, which
\* the body of a `new Function` sees, with the property n of the global
\* object as a process has it when it starts (0: not set)
Environments ==
    { [now |-> 1000, cwd |-> "/home/ann/app", n |-> 0],
      [now |-> 2000, cwd |-> "/srv/steam/app", n |-> 0] }

\* func(...values): the value of the expression, or the exception
EvalSlot(code, c, env) ==
    IF Len(code) # 1 THEN Raised
    ELSE LET x == code[1] IN
    CASE x = xReleaseDateStr -> Returned(Str(c.releaseDateStr))
      [] x = xDevelopers -> Returned(WikiLinks(c.storeData, "developers"))
      [] x = xPublishers -> Returned(WikiLinks(c.storeData, "publishers"))
      [] x = xGenres     -> Returned(WikiLinks(c.storeData, "genres"))
      [] x = xAppID      -> Returned(c.game.steamAppID)
      [] x = xIsReleased -> Returned(Bool(c.isReleased))
      [] x = xMetacritic ->
            Returned(IF HasObject(c.storeData) /\ Truthy(c.storeData.metacritic)
                     THEN c.storeData.metacritic ELSE Num(0))
      [] x = xPlayed     -> Returned(Bool(c.playtime.v > 0))
      [] x = xPlaytime   -> Returned(c.playtime)
      [] x = xTotalAch   -> Returned(Num(c.game.totalAchievements))
      [] x = xMyAch      -> Returned(Num(c.game.myAchievements))
      [] x = xCompletion -> Returned(Num(c.completionRate))
      [] x = xStatusTag  ->
            Returned(Str(IF c.playtime.v > 0
                         THEN IF c.playtime.v > 2 THEN << "status/playing" >>
                                                  ELSE << "status/backlog" >>
                         ELSE << "status/wishlist" >>))
      [] x = xHeader     ->
            Returned(IF HasObject(c.storeData) /\ Truthy(c.storeData.header_image)
                     THEN c.storeData.header_image ELSE Str(<< >>))
      [] x = xSummary    -> Returned(Str(c.summary))
      [] x = xStatus     ->
            Returned(Str(IF c.playtime.v > 0
                         THEN IF c.playtime.v > 2 THEN << "Playing" >>
                                                  ELSE << "Backlog" >>
                         ELSE << "Wishlist/Backlog" >>))
      [] x = xDuration   -> Returned(Str(formatDuration(c.playtime.v * 3600000)))
      [] x = xLastPlayed ->
            Returned(Str(IF Truthy(c.game.lastPlayed)
                         THEN << "date(" \o ToString(c.game.lastPlayed.v) \o "000)" >>
                         ELSE << "Never" >>))
      [] x = xName       -> Returned(Str(c.game.name))
      [] x = xStoreData  -> Returned(c.storeData)
      [] x = xFeatures   -> Returned(Arr(c.steamFeatures))
      [] x = xGame       -> Returned([t |-> "object"])
      [] x = xNow        -> Returned(Num(env.now))
      [] x = xCwd        -> Returned(Str(<< env.cwd >>))
      [] x = xCheat      -> Returned(Num(c.game.totalAchievements))
      [] x = xCount      -> Returned(Num(env.n + 1))
      [] OTHER           -> Raised

\* the context once the expression has run: `game` is the record of the
\* batch itself, and an assignment in the expression writes to it
Effect(code, c) ==
    IF code = << xCheat >>
    THEN [c EXCEPT !.game.myAchievements = c.game.totalAchievements]
    ELSE c

\* what lies outside the context once the expression has run: an assignment
\* to a property of the global object stays for the calls that follow
EffectOutside(code, env) ==
    IF code = << xCount >> THEN [env EXCEPT !.n = @ + 1] ELSE env

\* String(result)
ToText(v) ==
    CASE v.t = "string"  -> v.v
      [] v.t = "number"  -> << ToString(v.v) >>
      [] v.t = "boolean" -> << IF v.v THEN "true" ELSE "false" >>
      [] v.t = "null"    -> << "null" >>
      [] v.t = "array"   -> Join([k \in DOMAIN v.v |-> << v.v[k] >>], << "," >>)
      [] v.t = "object"  -> << "[object Object]" >>
      [] OTHER           -> << "undefined" >>

-----------------------------------------------------------------------------
(* renderTemplate *)

\* the first position at or behind e that holds "}"; 0 if there is none
RECURSIVE FirstClose(_, _)
FirstClose(t, e) ==
    IF e > Len(t) THEN 0
    ELSE IF t[e] = "}" THEN e
    ELSE FirstClose(t, e + 1)

\* the position of the "}" that closes a slot opened at s ("$" at s, "{" at
\* s + 1): the first "}" behind at least one token of expression; 0 if none
CloseOf(t, s) == FirstClose(t, s + 3)

\* where the next match of /\$\{([\s\S]+?)\}/ starts at or behind i; 0 if none
RECURSIVE NextSlot(_, _)
NextSlot(t, i) ==
    IF i >= Len(t) THEN 0
    ELSE IF t[i] = "$" /\ t[i + 1] = "{" /\ CloseOf(t, i) # 0 THEN i
    ELSE NextSlot(t, i + 1)

\* a callback whose catch yields no text
SubstituteDropsRaised(match, r) ==
    IF r.ok
    THEN IF r.val.t \in {"undefined", "null"} THEN << >> ELSE ToText(r.val)
    ELSE << >>

\* a callback without the test for undefined and null
SubstituteNullishText(match, r) ==
    IF r.ok THEN ToText(r.val) ELSE match

\* the replacement of one match, r being what func(...values) did: the
\* callback of template.replace
Substitute(match, r) ==
    IF r.ok
    THEN IF r.val.t \in {"undefined", "null"} THEN << >> ELSE ToText(r.val)
    ELSE match

\* template.replace(regex, callback) from position i on: the text it yields
\* (out), the calls of the callback in order, each with the expression of
\* the match and whether it returned or ended in the catch and its "Template
\* Error evaluating" line (log), and the context (ctx) and the property n of
\* the global object (n) behind the calls
RECURSIVE RenderFrom(_, _, _, _)
RenderFrom(t, i, c, env) ==
    LET s == NextSlot(t, i)
    IN  IF s = 0
        THEN [out |-> SubSeq(t, i, Len(t)), log |-> << >>, ctx |-> c, n |-> env.n]
        ELSE LET e == CloseOf(t, s)
                 code == SubSeq(t, s + 2, e - 1)
                 r == EvalSlot(code, c, env)
                 rest == RenderFrom(t, e + 1, Effect(code, c),
                                    EffectOutside(code, env))
             IN  [ out |-> SubSeq(t, i, s - 1) \o Substitute(SubSeq(t, s, e), r)
                             \o rest.out,
                   log |-> << [code |-> code, ok |-> r.ok] >> \o rest.log,
                   ctx |-> rest.ctx,
                   n |-> rest.n ]

\* a render that goes over its own output once more
RenderTwice(t, c, env) ==
    LET first == RenderFrom(t, 1, c, env)
        again == RenderFrom(first.out, 1, first.ctx, [env EXCEPT !.n = first.n])
    IN  [out |-> again.out, log |-> first.log \o again.log, ctx |-> again.ctx,
         n |-> again.n]

\* one call of renderTemplate: the text it returns, with what it prints and
\* what it leaves behind in the context
RenderCall(t, c, env) == RenderFrom(t, 1, c, env)

renderTemplate(t, c, env) == RenderCall(t, c, env).out

\* a slot ${code} of a template
Slot(code) == << "$", "{", code, "}" >>

DEFAULT_TEMPLATE ==
    << "---\ntitle: ", "\"", "[[game.name]]", "\"", "\nreleaseDate: " >>
    \o Slot(xReleaseDateStr) \o << "\ndevelopers:\n" >>
    \o Slot(xDevelopers) \o << "\npublishers:\n" >>
    \o Slot(xPublishers) \o << "\ngenres:\n" >>
    \o Slot(xGenres) \o << "\nurl: https://store.steampowered.com/app/" >>
    \o Slot(xAppID) \o << "\nreleased: " >>
    \o Slot(xIsReleased) \o << "\nmetacriticRating: " >>
    \o Slot(xMetacritic) \o << "\nplayed: " >>
    \o Slot(xPlayed) \o << "\nplaytimeHours: " >>
    \o Slot(xPlaytime) \o << "\nachievementsTotal: " >>
    \o Slot(xTotalAch) \o << "\nachievementsUnlocked: " >>
    \o Slot(xMyAch) \o << "\ncompletionRate: " >>
    \o Slot(xCompletion)
    \o << "%\npersonalRating: 0\ntype: game\nplatform: steam\nid: " >>
    \o Slot(xAppID) \o << "\ntags: \n  - steamgame\n  - " >>
    \o Slot(xStatusTag) \o << "\n", "image: " >>
    \o Slot(xHeader) \o << "\n---\n![Cover](" >>
    \o Slot(xHeader) \o << ")\n\n> [!summary] Description\n> " >>
    \o Slot(xSummary) \o << "\n\n# My Stats\n- **Status**: " >>
    \o Slot(xStatus) \o << "\n- **Playtime**: " >>
    \o Slot(xDuration) \o << " (" >>
    \o Slot(xPlaytime) \o << " hours)\n- **Last Played**: " >>
    \o Slot(xLastPlayed) \o << "\n- **Completion**: " >>
    \o Slot(xCompletion) \o << "% (" >>
    \o Slot(xMyAch) \o << "/" >>
    \o Slot(xTotalAch)
    \o << ")\n\n# Links\n- [Steam Store](https://store.steampowered.com/app/" >>
    \o Slot(xAppID)
    \o << ")\n- [ProtonDB (Linux/Deck Compatibility)](https://www.protondb.com/app/" >>
    \o Slot(xAppID) \o << ")\n- [SteamDB](https://steamdb.info/app/" >>
    \o Slot(xAppID) \o << "/)\n" >>

\* a markdownTemplate of the settings file: the image property is quoted, as
\* the skip check expects, and one slot calls a helper the context lacks
CustomTemplate ==
    << "# " >> \o Slot(xName) \o << "\n", "image: ", "\"" >>
    \o Slot(xHeader) \o << "\"", "\nslug: " >>
    \o Slot(xSlugify) \o << "\n" >>

\* a load that never takes the markdownTemplate of the settings file
LoadDefaultOnly(sf) == DEFAULT_TEMPLATE

\* "1. Load Settings": the line it prints.  A file that is absent, or that
\* parses and has no markdownTemplate, prints nothing
SettingsLine(sf) ==
    CASE sf = "corrupt" -> "Could not read settings file. Using default template."
      [] sf = "custom"  -> "Loaded custom Markdown template from settings."
      [] OTHER          -> "none"

\* "1. Load Settings": the template the run uses
LoadTemplate(sf) == IF sf = "custom" THEN CustomTemplate ELSE DEFAULT_TEMPLATE

\* a skip check that takes every existing artifact for enriched
SkipsWhenExists(text) == TRUE

\* a skip check that takes the image line alone for the marker
SkipsOnImageLine(text) == Includes(text, << "image: " >>)

\* a skip check that never recognises an artifact
NeverSkips(text) == FALSE

\* the "Smart Skip Check" on the text of an existing artifact
HasSkipMarker(text) ==
    \/ Includes(text, << "image: ", "\"", "http" >>)
    \/ Includes(text, << "cover_url: ", "\"", "http" >>)

-----------------------------------------------------------------------------
(* The inputs of the model: records, batch files, enrichment data, responses *)

GameA == [ name |-> << "A" >>, steamAppID |-> Num(10),
           playtime |-> Num(5), lastPlayed |-> Num(1700),
           myAchievements |-> 1, totalAchievements |-> 2 ]
\* sanitizes to the file name of GameA; identifier zero, never played
GameA2 == [ name |-> << "A", ":" >>, steamAppID |-> Num(0),
            playtime |-> JSFalse, lastPlayed |-> JSFalse,
            myAchievements |-> 0, totalAchievements |-> 10 ]
\* a record as the scraper writes it: no steamAppID at all
GameB == [ name |-> << " ", "B", "?" >>, steamAppID |-> Undefined,
           playtime |-> Num(1), lastPlayed |-> JSFalse,
           myAchievements |-> 0, totalAchievements |-> 0 ]
GameC == [ name |-> << "C" >>, steamAppID |-> Num(20),
           playtime |-> JSFalse, lastPlayed |-> Num(1600),
           myAchievements |-> 3, totalAchievements |-> 3 ]

Catalogue == { GameA, GameA2, GameB, GameC }

\* the record titled "Foo: Bar": identifier zero, no playtime, never played,
\* none of ten achievements
GameFoo == [ name |-> << "F", "o", "o", ":", " ", "B", "a", "r" >>,
             steamAppID |-> Num(0),
             playtime |-> JSFalse, lastPlayed |-> JSFalse,
             myAchievements |-> 0, totalAchievements |-> 10 ]

RECURSIVE SeqsUpTo(_, _)
SeqsUpTo(S, n) ==
    IF n = 0 THEN { << >> }
    ELSE LET shorter == SeqsUpTo(S, n - 1)
         IN  shorter \cup { Append(q, x) : q \in shorter, x \in S }

\* the batches: every record of the catalogue at most once
Batches ==
    { b \in SeqsUpTo(Catalogue, MaxGames) :
        \A i, j \in 1..Len(b) : i # j => b[i] # b[j] }

\* rows of the games page of the account: title, hours played (0: "0 hours"
\* or nothing), day last played (0: never), achievements unlocked and total
RowB == [ name |-> << " ", "B", "?" >>, hours |-> 1, last |-> 0, my |-> 0, total |-> 0 ]
RowH == [ name |-> << "H" >>, hours |-> 0, last |-> 1500, my |-> 2, total |-> 4 ]

\* the record the scraper makes of a row, as a reader of the batch file
\* finds it: { name, playtime, lastPlayed, myAchievements, totalAchievements },
\* no steamAppID
ScrapedRecord(row) ==
    [ name |-> row.name,
      steamAppID |-> Undefined,
      playtime |-> IF row.hours = 0 THEN JSFalse ELSE Num(row.hours),
      lastPlayed |-> IF row.last = 0 THEN JSFalse ELSE Num(row.last),
      myAchievements |-> row.my,
      totalAchievements |-> row.total ]

\* what the games page may list when the scraper reads it
Libraries == { << RowB >>, << RowH, RowB >> }

FileNames ==
    { sanitizeFilename(g.name) : g \in Catalogue \cup { GameFoo } }
    \cup { sanitizeFilename(row.name) : row \in { RowB, RowH } }

NoFile == [exists |-> FALSE, text |-> << >>]

\* the appdetails data of an application
StoreOf(id) ==
    [ t |-> "object",
      steam_appid |-> id,
      header_image |-> Str(<< "http", "s://cdn.example/" \o ToString(id) \o "/header.jpg" >>),
      short_description |-> Str(<< "Fast ", "&amp;", " loud", "<br>", "<b>", "now", "</b>" >>),
      developers |-> Arr(<< "Valve" >>),
      publishers |-> Arr(<< "Valve", "Sierra" >>),
      genres |-> Arr(<< "Action" >>),
      categories |-> Arr(<< "Single-player" >>),
      controller_support |-> Str(<< "full" >>),
      release_date |-> [ t |-> "object", coming_soon |-> FALSE,
                         date |-> << "1 Nov, 2000" >>,
                         iso |-> Str(<< "2000-11-01" >>) ],
      metacritic |-> Num(88) ]

\* what a failure envelope may carry in its data member
ErrorFragment ==
    [ t |-> "object",
      steam_appid |-> 0,
      header_image |-> Str(<< "http", "://error.example/blocked.png" >>),
      short_description |-> Str(<< "Access denied" >>),
      developers |-> Undefined,
      publishers |-> Undefined,
      genres |-> Undefined,
      categories |-> Undefined,
      controller_support |-> Undefined,
      release_date |-> Undefined,
      metacritic |-> Undefined ]

BodyGarbage  == [parses |-> FALSE, value |-> Null]
BodyJsonNull == [parses |-> TRUE, value |-> Null]
BodyNoEntry  == [parses |-> TRUE, value |-> [t |-> "object", entries |-> << >>]]
BodyEnvelope(id, success, data) ==
    [ parses |-> TRUE,
      value |-> [ t |-> "object",
                  entries |-> (id :> [success |-> success, data |-> data]) ] ]

NoBody == [parses |-> FALSE, value |-> Undefined]
NoResp == [kind |-> "none", status |-> 0, body |-> NoBody]
RespError == [kind |-> "error", status |-> 0, body |-> NoBody]
RespStall == [kind |-> "stall", status |-> 0, body |-> NoBody]
Response(status, body) == [kind |-> "response", status |-> status, body |-> body]

\* what the remote source may do for a request for application id
Responses(id) ==
    { RespError,
      Response(200, BodyEnvelope(id, TRUE, StoreOf(id))),
      Response(200, BodyEnvelope(id, FALSE, ErrorFragment)),
      Response(200, BodyNoEntry),
      Response(200, BodyJsonNull),
      Response(200, BodyGarbage),
      Response(429, BodyGarbage),
      Response(429, BodyEnvelope(id, TRUE, StoreOf(id))) }

\* how long a request may take, in ms
Latencies == { 0, 400 }

BatchFile(tag, time, data) ==
    [name |-> << "SteamScrape", tag, ".json" >>, time |-> time, data |-> data]

OtherFile == [name |-> << "notes", ".json" >>, time |-> 9, data |-> << >>]

\* an older batch left behind by an earlier scrape
StaleBatch == << GameC >>

InputDirs ==
    { [exists |-> FALSE, entries |-> << >>],
      [exists |-> TRUE, entries |-> << OtherFile >>] }
    \cup { [exists |-> TRUE, entries |-> << OtherFile, BatchFile("_1", 1, b) >>]
             : b \in Batches }
    \cup { [exists |-> TRUE,
            entries |-> << BatchFile("_1", 1, StaleBatch), BatchFile("_2", 2, b) >>]
             : b \in { << GameA >> } }
    \cup { [exists |-> TRUE,
            entries |-> << BatchFile("_2", 2, b), BatchFile("_1", 1, StaleBatch) >>]
             : b \in { << GameA >> } }
    \cup { [exists |-> TRUE, entries |-> << BatchFile("_1", 1, << GameFoo >>) >>] }

SettingsFiles == { "absent", "corrupt", "noTemplate", "custom" }

-----------------------------------------------------------------------------
(* runConversion *)

Running == { "skipcheck", "fetching", "render", "write", "sleeping" }

Game     == games[index]

\* every artifact under the name of the first record
FilePathOfFirst == sanitizeFilename(games[1].name)

\* path.join(OUTPUT_DIR, `${safeName}.md`)
FilePath == sanitizeFilename(Game.name)

\* a loop that starts at the last record
FirstIndexLast(gs) == IF Len(gs) > 1 THEN Len(gs) ELSE 1

\* for (const [index, game] of games.entries()): where the loop starts, and
\* the record behind record i
FirstIndex(gs) == 1
NextIndex(i)   == i + 1

\* storeData declared outside the loop: a record inherits its predecessor's
StaleStoreData == storeData

\* let storeData: SteamStoreData | null = null, declared inside the loop body
InitialStoreData == Null

\* a loop that asks again when the fetch gave nothing
RetryWhenNone(sd) == IF Truthy(sd) THEN "render" ELSE "skipcheck"

\* storeData = await fetchSteamDetails(game.steamAppID): whatever the promise
\* resolved to, the iteration goes on to the data prep
AfterFetch(sd) == "render"

\* the delay taken in the wrong unit
SleepShort == DELAY_MS \div 1000

\* await sleep(DELAY_MS): how long the timer runs
SleepMs == DELAY_MS

\* the delay taken only behind a request
DelayDueAfterRequest(i) == netCalls[i] > 0

\* await sleep(DELAY_MS) closes the loop body, whatever the iteration did
DelayDue(i) == TRUE

\* the step of a rounded-down tenth
UpdateStepFloor(n) ==
    IF n >= 100 THEN n \div 10
    ELSE IF n >= 10 THEN 10
    ELSE 0

\* updateStep: Math.ceil(n / 10) from 100 records on, 10 from 10 on, else 0
UpdateStep(n) ==
    IF n >= 100 THEN (n + 9) \div 10
    ELSE IF n >= 10 THEN 10
    ELSE 0

\* updateStep > 0 && (index + 1) % updateStep === 0 && index + 1 !== games.length,
\* for the k-th record of n
CheckpointDue(k, n) ==
    /\ UpdateStep(n) > 0
    /\ k % UpdateStep(n) = 0
    /\ k # n

\* time since the last fetch start, d ms later (capped at DELAY_MS)
Later(t, d) == IF t < 0 THEN t ELSE Min(t + d, DELAY_MS)

\* the loop is behind record i: the next iteration, or the lines behind the loop
\* ("Success! Files saved to:")
LoopBehind(i) ==
    IF NextIndex(i) <= Len(games)
    THEN /\ index' = NextIndex(i)
         /\ pc' = "skipcheck"
         /\ outcome' = outcome
    ELSE /\ index' = index
         /\ pc' = "done"
         /\ outcome' = "success"

Init ==
    /\ settingsFile \in SettingsFiles
    /\ inputDir \in InputDirs
    /\ files = [f \in FileNames |-> NoFile]
    /\ run = 0
    /\ pc = "idle"
    /\ template = << >>
    /\ games = << >>
    /\ jsonPath = Null
    /\ index = 0
    /\ storeData = Null
    /\ fileContent = << >>
    /\ recState = << >>
    /\ netCalls = << >>
    /\ writes = << >>
    /\ sleeps = << >>
    /\ inFlight = 0
    /\ resp = NoResp
    /\ sinceFetch = -1
    /\ minGap = DELAY_MS
    /\ console = << >>
    /\ outcome = "none"
    /\ startFiles = [f \in FileNames |-> NoFile]
    /\ evalLog = << >>
    /\ checkpoints = {}
    /\ rendered = << >>
    /\ settingsLog = "none"
    /\ globalThis = 0
    /\ scrapeResults = << >>

\* runConversion is called (menu options 2 and 3, or the script run directly):
\* settings, batch, and the set-up of the loop
StartRun ==
    /\ pc \in { "idle", "done", "crashed", "killed", "scraped", "scrapeFailed" }
    /\ run < MaxRuns
    /\ run' = run + 1
    /\ template' = LoadTemplate(settingsFile)
    /\ jsonPath' = findLatestJsonFile(inputDir)
    /\ startFiles' = files
    /\ storeData' = Null
    /\ fileContent' = << >>
    /\ inFlight' = 0
    /\ resp' = NoResp
    /\ sinceFetch' = -1
    /\ minGap' = DELAY_MS
    /\ IF jsonPath' = Null
       THEN \* "No JSON files found": INPUT_DIR is created, nothing else happens
            /\ inputDir' = [inputDir EXCEPT !.exists = TRUE]
            /\ games' = << >>
            /\ index' = 0
            /\ pc' = "done"
            /\ outcome' = "noBatch"
       ELSE /\ inputDir' = inputDir
            /\ games' = jsonPath'.v.data
            /\ IF Len(games') >= FirstIndex(games')
               THEN /\ index' = FirstIndex(games')
                    /\ pc' = "skipcheck"
                    /\ outcome' = "none"
               ELSE /\ index' = 0
                    /\ pc' = "done"
                    /\ outcome' = "success"
    /\ recState' = [i \in 1..Len(games') |-> "Pending"]
    /\ netCalls' = [i \in 1..Len(games') |-> 0]
    /\ writes' = [i \in 1..Len(games') |-> 0]
    /\ sleeps' = [i \in 1..Len(games') |-> 0]
    /\ console' = [i \in 1..Len(games') |-> "none"]
    /\ evalLog' = << >>
    /\ checkpoints' = {}
    /\ rendered' = [i \in 1..Len(games') |-> << >>]
    /\ settingsLog' = SettingsLine(settingsFile)
    /\ UNCHANGED << settingsFile, files, globalThis, scrapeResults >>

\* the artifact exists and bears the marker: "Skipping ... (Already enriched)"
SkipRecord ==
    /\ pc = "skipcheck"
    /\ files[FilePath].exists
    /\ HasSkipMarker(files[FilePath].text)
    /\ recState' = [recState EXCEPT ![index] = "Skipped"]
    /\ console' = [console EXCEPT ![index] = "Skipping"]
    /\ LoopBehind(index)
    /\ UNCHANGED << settingsFile, settingsLog, globalThis, scrapeResults,
                    inputDir, files, run, template, games, jsonPath,
                    storeData, fileContent, netCalls, writes, sleeps, inFlight,
                    resp, sinceFetch, minGap, startFiles, evalLog, checkpoints,
                    rendered >>

NotSkipped ==
    ~(files[FilePath].exists /\ HasSkipMarker(files[FilePath].text))

\* "Processing: ..." and fetchSteamDetails(game.steamAppID) issues its request
StartFetch ==
    /\ pc = "skipcheck"
    /\ NotSkipped
    /\ Truthy(Game.steamAppID)
    /\ ~ShortCircuits(Game.steamAppID)
    /\ console' = [console EXCEPT ![index] = "Processing"]
    /\ recState' = [recState EXCEPT ![index] = "Fetching"]
    /\ storeData' = InitialStoreData
    /\ netCalls' = [netCalls EXCEPT ![index] = @ + 1]
    /\ inFlight' = inFlight + 1
    /\ minGap' = IF sinceFetch < 0 THEN minGap ELSE Min(minGap, sinceFetch)
    /\ sinceFetch' = 0
    /\ pc' = "fetching"
    /\ UNCHANGED << settingsFile, settingsLog, globalThis, scrapeResults,
                    inputDir, files, run, template, games, jsonPath,
                    index, fileContent, writes, sleeps, resp, outcome, startFiles, evalLog, checkpoints,
                    rendered >>

\* "Processing: ..." for a record without identifier: no request, storeData
\* stays as declared
NoFetch ==
    /\ pc = "skipcheck"
    /\ NotSkipped
    /\ ~(Truthy(Game.steamAppID) /\ ~ShortCircuits(Game.steamAppID))
    /\ console' = [console EXCEPT ![index] = "Processing"]
    /\ recState' = [recState EXCEPT ![index] = "Rendering"]
    /\ storeData' = InitialStoreData
    /\ pc' = "render"
    /\ UNCHANGED << settingsFile, settingsLog, globalThis, scrapeResults,
                    inputDir, files, run, template, games, jsonPath,
                    index, fileContent, netCalls, writes, sleeps, inFlight, resp,
                    sinceFetch, minGap, outcome, startFiles, evalLog, checkpoints,
                    rendered >>

\* the request settles (res 'end', or the request's 'error') and the promise
\* resolves
FetchSettles ==
    /\ pc = "fetching"
    /\ \E r \in Responses(Game.steamAppID.v), d \in Latencies :
          /\ resp' = r
          /\ storeData' = FetchResult(Game.steamAppID.v, r)
          /\ sinceFetch' = Later(sinceFetch, d)
    /\ inFlight' = inFlight - 1
    /\ recState' = [recState EXCEPT ![index] = "Rendering"]
    /\ pc' = AfterFetch(storeData')
    /\ UNCHANGED << settingsFile, settingsLog, globalThis, scrapeResults,
                    inputDir, files, run, template, games, jsonPath,
                    index, fileContent, netCalls, writes, sleeps, minGap, console,
                    outcome, startFiles, evalLog, checkpoints,
                    rendered >>

\* the remote source never completes its response: neither handler runs, no
\* timeout is set, the promise stays pending
FetchStalls ==
    /\ pc = "fetching"
    /\ resp' = RespStall
    /\ pc' = "stalled"
    /\ UNCHANGED << settingsFile, settingsLog, globalThis, scrapeResults,
                    inputDir, files, run, template, games, jsonPath,
                    index, storeData, fileContent, recState, netCalls, writes,
                    sleeps, inFlight, sinceFetch, minGap, console, outcome,
                    startFiles, evalLog, checkpoints,
                    rendered >>

\* data prep, context creation and renderTemplate
Render ==
    /\ pc = "render"
    /\ \E r \in { RenderCall(template, Context(Game, storeData),
                                [env EXCEPT !.n = globalThis])
                     : env \in Environments } :
          /\ fileContent' = r.out
          /\ evalLog' = r.log
          /\ rendered' = [rendered EXCEPT ![index] = r.out]
          /\ games' = [games EXCEPT ![index] = r.ctx.game]
          /\ globalThis' = r.n
    /\ recState' = [recState EXCEPT ![index] = "Writing"]
    /\ pc' = "write"
    /\ UNCHANGED << settingsFile, settingsLog, scrapeResults,
                    inputDir, files, run, template, jsonPath,
                    index, storeData, netCalls, writes, sleeps, inFlight, resp,
                    sinceFetch, minGap, console, outcome, startFiles, checkpoints >>

\* fs.writeFileSync returns; "Enriched" or "Basic Info Only"; the checkpoint
\* line when one is due; then sleep starts
Write ==
    /\ pc = "write"
    /\ files' = [files EXCEPT ![FilePath] = [exists |-> TRUE, text |-> fileContent]]
    /\ writes' = [writes EXCEPT ![index] = @ + 1]
    /\ console' = [console EXCEPT ![index] =
                      IF Truthy(storeData) THEN "Enriched" ELSE "Basic Info Only"]
    /\ checkpoints' = IF CheckpointDue(index, Len(games))
                      THEN checkpoints \cup { index } ELSE checkpoints
    /\ resp' = NoResp
    /\ evalLog' = << >>
    /\ IF DelayDue(index)
       THEN /\ recState' = [recState EXCEPT ![index] = "Written"]
            /\ pc' = "sleeping"
            /\ index' = index
            /\ outcome' = outcome
       ELSE /\ recState' = [recState EXCEPT ![index] = "Done"]
            /\ LoopBehind(index)
    /\ UNCHANGED << settingsFile, settingsLog, globalThis, scrapeResults,
                    inputDir, run, template, games, jsonPath,
                    storeData, fileContent, netCalls, sleeps, inFlight, sinceFetch,
                    minGap, startFiles, rendered >>

\* fs.writeFileSync throws (disk full, no permission, name too long): nothing
\* catches it, runConversion rejects
WriteThrows ==
    /\ pc = "write"
    /\ recState' = [recState EXCEPT ![index] = "WriteFailed"]
    /\ resp' = NoResp
    /\ pc' = "crashed"
    /\ UNCHANGED << settingsFile, settingsLog, globalThis, scrapeResults,
                    inputDir, files, run, template, games, jsonPath,
                    index, storeData, fileContent, netCalls, writes, sleeps,
                    inFlight, sinceFetch, minGap, console, outcome, startFiles, evalLog, checkpoints,
                    rendered >>

\* the timer of sleep(DELAY_MS) fires, and the loop goes on
Sleep ==
    /\ pc = "sleeping"
    /\ sleeps' = [sleeps EXCEPT ![index] = @ + 1]
    /\ sinceFetch' = Later(sinceFetch, SleepMs)
    /\ recState' = [recState EXCEPT ![index] = "Done"]
    /\ LoopBehind(index)
    /\ UNCHANGED << settingsFile, settingsLog, globalThis, scrapeResults,
                    inputDir, files, run, template, games, jsonPath,
                    storeData, fileContent, netCalls, writes, inFlight, resp,
                    minGap, console, startFiles, evalLog, checkpoints,
                    rendered >>

\* the process is terminated from outside: what it held in memory is gone,
\* the directories stay as they are
Terminate ==
    /\ pc \in Running \cup { "stalled" }
    /\ pc' = "killed"
    /\ template' = << >>
    /\ games' = << >>
    /\ jsonPath' = Null
    /\ index' = 0
    /\ storeData' = Null
    /\ fileContent' = << >>
    /\ recState' = << >>
    /\ netCalls' = << >>
    /\ writes' = << >>
    /\ sleeps' = << >>
    /\ console' = << >>
    /\ inFlight' = 0
    /\ resp' = NoResp
    /\ sinceFetch' = -1
    /\ minGap' = DELAY_MS
    /\ evalLog' = << >>
    /\ checkpoints' = {}
    /\ rendered' = << >>
    /\ globalThis' = 0
    /\ UNCHANGED << settingsFile, settingsLog, scrapeResults,
                    inputDir, files, run, outcome, startFiles >>

Next ==
    \/ StartRun
    \/ SkipRecord
    \/ StartFetch
    \/ NoFetch
    \/ FetchSettles
    \/ FetchStalls
    \/ Render
    \/ Write
    \/ WriteThrows
    \/ Sleep
    \/ Terminate

Spec == Init /\ [][Next]_vars

-----------------------------------------------------------------------------
(* renderTemplate over the templates a settings file may hold: a run with   *)
(* a markdownTemplate of up to MaxParts parts stands before the render of   *)
(* the only record of its batch.                                            *)

\* what a markdownTemplate is made of: literal text, and slots whose
\* expressions yield a string, a number or undefined, null or an object,
\* text of the remote source, an exception, the time, the working directory,
\* an assignment to the record, an array
TemplateParts ==
    { << "- " >> }
    \cup { Slot(x) : x \in { xName, xAppID, xStoreData, xSummary, xSlugify,
                             xNow, xCwd, xCheat, xFeatures } }

UserTemplates == { Join(p, << >>) : p \in SeqsUpTo(TemplateParts, MaxParts) }

\* appdetails data whose short_description reads ${game.name}
StoreEcho ==
    [StoreOf(10) EXCEPT !.short_description = Str(<< "$", "{", xName, "}" >>)]

\* the record before the render, what its fetch gave, and the records
\* behind it in the batch
RenderInputs ==
    { [game |-> GameA, sd |-> StoreEcho,
       resp |-> Response(200, BodyEnvelope(10, TRUE, StoreEcho)), next |-> << >>],
      [game |-> GameB, sd |-> Null, resp |-> NoResp, next |-> << >>] }

\* a run over the batch of in, with template t, before the render of the
\* first record
RenderStart(in, t) ==
        LET batch == BatchFile("_1", 1, << in.game >> \o in.next)
            fetched == IF in.resp = NoResp THEN 0 ELSE 1
            behind == [i \in 1..Len(in.next) |-> 0]
        IN  /\ settingsFile = "custom"
            /\ inputDir = [exists |-> TRUE, entries |-> << batch >>]
            /\ files = [f \in FileNames |-> NoFile]
            /\ run = 1
            /\ pc = "render"
            /\ template = t
            /\ games = batch.data
            /\ jsonPath = [t |-> "entry", v |-> batch]
            /\ index = 1
            /\ storeData = in.sd
            /\ fileContent = << >>
            /\ recState = << "Rendering" >> \o [i \in DOMAIN behind |-> "Pending"]
            /\ netCalls = << fetched >> \o behind
            /\ writes = << 0 >> \o behind
            /\ sleeps = << 0 >> \o behind
            /\ inFlight = 0
            /\ resp = in.resp
            /\ sinceFetch = fetched - 1
            /\ minGap = DELAY_MS
            /\ console = << "Processing" >> \o [i \in DOMAIN behind |-> "none"]
            /\ outcome = "none"
            /\ startFiles = [f \in FileNames |-> NoFile]
            /\ evalLog = << >>
            /\ checkpoints = {}
            /\ rendered = [i \in DOMAIN batch.data |-> << >>]
            /\ settingsLog = SettingsLine(settingsFile)
            /\ globalThis = 0
            /\ scrapeResults = << >>

InitRender == \E in \in RenderInputs, t \in UserTemplates : RenderStart(in, t)

NextRender ==
    \/ Render
    \/ Write
    \/ Sleep

SpecRender == InitRender /\ [][NextRender]_vars

-----------------------------------------------------------------------------
(* renderTemplate over a batch of two records, with templates whose slots    *)
(* assign to the global object or hold a closing brace in their expression.  *)

\* a slot whose expression holds an object literal: ${({a: 1}).a}
BraceSlot == << "$", "{", "(", "{", "a: 1", "}", ").a", "}" >>

BatchTemplateParts ==
    { << "- " >>, BraceSlot, Slot(xName), Slot(xCount) }

BatchTemplates ==
    { Join(p, << >>) : p \in SeqsUpTo(BatchTemplateParts, MaxParts) }

\* two records without a request; the second alone; the first alone
BatchInputs ==
    { [game |-> GameB, sd |-> Null, resp |-> NoResp, next |-> << GameFoo >>],
      [game |-> GameFoo, sd |-> Null, resp |-> NoResp, next |-> << >>],
      [game |-> GameB, sd |-> Null, resp |-> NoResp, next |-> << >>] }

InitBatchRender ==
    \E in \in BatchInputs, t \in BatchTemplates : RenderStart(in, t)

NextBatchRender ==
    \/ NoFetch
    \/ Render
    \/ Write
    \/ Sleep

SpecBatchRender == InitBatchRender /\ [][NextBatchRender]_vars

-----------------------------------------------------------------------------
(* The completion rate over the achievement counts a record may hold: a run  *)
(* stands before the render of a record with myAchievements of               *)
(* totalAchievements, up to MaxTotal, and a template that prints the rate.   *)

\* a markdownTemplate that reads ${completionRate}%
RateTemplate == Slot(xCompletion) \o << "%" >>

\* records without a request, my of total achievements each
RateInputs ==
    { [game |-> [GameB EXCEPT !.myAchievements = my, !.totalAchievements = total],
       sd |-> Null, resp |-> NoResp, next |-> << >>]
        : my \in 0..MaxTotal, total \in 0..MaxTotal }

InitRate ==
    \E in \in RateInputs :
        /\ in.game.myAchievements <= in.game.totalAchievements
        /\ RenderStart(in, RateTemplate)

SpecRate == InitRate /\ [][NextRender]_vars

-----------------------------------------------------------------------------
(* runConversion over long batches: the library of an account with many      *)
(* records that the scraper left without steamAppID, some of them enriched   *)
(* by hand before (their artifact bears the skip marker).                    *)

\* the lengths of the long batches: below 10, from 10 on, from 100 on
ProgressLengths == { 9, 10, 25, 100, 101 }

\* which records have an enriched artifact already: none (0), or every
\* tenth or every thirty-third of the batch
EnrichedEvery == { 0, 10, 33 }

ProgressBatch(n, every) ==
    [k \in 1..n |-> IF every > 0 /\ k % every = 0 THEN GameA ELSE GameB]

InitProgress ==
    \E n \in ProgressLengths, every \in EnrichedEvery, env \in Environments :
        /\ settingsFile = "custom"
        /\ inputDir = [exists |-> TRUE,
                       entries |-> << BatchFile("_1", 1, ProgressBatch(n, every)) >>]
        /\ files = [f \in FileNames |->
                      IF f = sanitizeFilename(GameA.name)
                      THEN [exists |-> TRUE,
                            text |-> renderTemplate(CustomTemplate,
                                                    Context(GameA, StoreOf(10)), env)]
                      ELSE NoFile]
        /\ run = 0
        /\ pc = "idle"
        /\ template = << >>
        /\ games = << >>
        /\ jsonPath = Null
        /\ index = 0
        /\ storeData = Null
        /\ fileContent = << >>
        /\ recState = << >>
        /\ netCalls = << >>
        /\ writes = << >>
        /\ sleeps = << >>
        /\ inFlight = 0
        /\ resp = NoResp
        /\ sinceFetch = -1
        /\ minGap = DELAY_MS
        /\ console = << >>
        /\ outcome = "none"
        /\ startFiles = files
        /\ evalLog = << >>
        /\ checkpoints = {}
        /\ rendered = << >>
    /\ settingsLog = "none"
    /\ globalThis = 0
    /\ scrapeResults = << >>

NextProgress ==
    \/ StartRun
    \/ SkipRecord
    \/ NoFetch
    \/ Render
    \/ Write
    \/ Sleep

SpecProgress == InitProgress /\ [][NextProgress]_vars

-----------------------------------------------------------------------------
(* The menu of cli.ts: option 1 runs the scraper, option 2 runConversion,    *)
(* option 3 the scraper and then runConversion.  The account has a library   *)
(* of records without identifier; output/raw_data is absent or holds a       *)
(* batch that was put there by hand.                                         *)

\* directories, by their path below ROOT_DIR
INPUT_DIR == << "output", "raw_data" >>

\* where the scraper writes: outputDir 'scrape_results', resolved against the
\* working directory that runScraper gives the process (cwd: APP_DIR)
APP_DIR == << "app" >>
ScraperOutputPath == APP_DIR \o << "scrape_results" >>

\* the batch file of the k-th scrape: SteamScrape_<account>_<timestamp>.json,
\* newer than every file there is
ScrapeFile(k, lib) ==
    BatchFile("_ann_" \o ToString(k), 10 + k,
              [i \in DOMAIN lib |-> ScrapedRecord(lib[i])])

\* the batch of an earlier scrape
EarlierBatch == BatchFile("_ann_0", 1, << ScrapedRecord(RowH) >>)

\* runScraper(currentID) of option 1 or 3, until the scraper process has
\* closed: the scraper writes its batch file (or fails before, which
\* runScraper resolves as well), and option 3 goes on to runConversion
Scrape ==
    /\ pc \in { "idle", "done" }
    /\ Len(scrapeResults) + Len(inputDir.entries) < MaxScrapes
    /\ \E choice \in { 1, 3 }, lib \in Libraries, ok \in BOOLEAN :
          LET file == ScrapeFile(Len(scrapeResults) + Len(inputDir.entries), lib)
          IN  /\ IF ~ok
                 THEN UNCHANGED << scrapeResults, inputDir >>
                 ELSE IF ScraperOutputPath = INPUT_DIR
                 THEN /\ inputDir' = [exists |-> TRUE,
                                      entries |-> Append(inputDir.entries, file)]
                      /\ scrapeResults' = scrapeResults
                 ELSE /\ scrapeResults' = Append(scrapeResults, file)
                      /\ inputDir' = inputDir
              /\ pc' = IF choice = 1 THEN "idle"
                       ELSE IF ok THEN "scraped" ELSE "scrapeFailed"
    /\ UNCHANGED << settingsFile, settingsLog, globalThis, files, run, template,
                    games, jsonPath, index, storeData, fileContent, recState,
                    netCalls, writes, sleeps, inFlight, resp, sinceFetch, minGap,
                    console, outcome, startFiles, evalLog, checkpoints, rendered >>

InitMenu ==
    /\ settingsFile \in { "noTemplate", "custom" }
    /\ inputDir \in { [exists |-> FALSE, entries |-> << >>],
                       [exists |-> TRUE, entries |-> << EarlierBatch >>] }
    /\ files = [f \in FileNames |-> NoFile]
    /\ run = 0
    /\ pc = "idle"
    /\ template = << >>
    /\ games = << >>
    /\ jsonPath = Null
    /\ index = 0
    /\ storeData = Null
    /\ fileContent = << >>
    /\ recState = << >>
    /\ netCalls = << >>
    /\ writes = << >>
    /\ sleeps = << >>
    /\ inFlight = 0
    /\ resp = NoResp
    /\ sinceFetch = -1
    /\ minGap = DELAY_MS
    /\ console = << >>
    /\ outcome = "none"
    /\ startFiles = files
    /\ evalLog = << >>
    /\ checkpoints = {}
    /\ rendered = << >>
    /\ settingsLog = "none"
    /\ globalThis = 0
    /\ scrapeResults = << >>

NextMenu ==
    \/ Scrape
    \/ StartRun
    \/ NoFetch
    \/ Render
    \/ Write
    \/ Sleep

SpecMenu == InitMenu /\ [][NextMenu]_vars

-----------------------------------------------------------------------------
(* Properties *)

Records == DOMAIN recState

NameOf(i) == sanitizeFilename(games[i].name)

\* the skip marker of the specification: a known field holding an external
\* reference
BearsSkipMarker(text) ==
    \/ Includes(text, << "image: ", "\"", "http" >>)
    \/ Includes(text, << "cover_url: ", "\"", "http" >>)

\* the record has not been touched by the current run, or was skipped by it
Untouched(i) ==
    /\ netCalls[i] = 0
    /\ writes[i] = 0
    /\ recState[i] \in { "Pending", "Skipped" }

\* C1: an artifact that bears the skip marker when a run begins (the second
\* run on the same batch and template among them) keeps its content during
\* that run, and the run neither fetches nor writes for a record of that
\* artifact.
C1_Idempotent ==
    \A f \in FileNames :
        (startFiles[f].exists /\ BearsSkipMarker(startFiles[f].text)) =>
            /\ files[f] = startFiles[f]
            /\ \A i \in Records : NameOf(i) = f => Untouched(i)

C1_Witness ==
    /\ run = 2
    /\ pc = "done"
    /\ \E i \in Records : recState[i] = "Skipped"

\* the artifact the default template yields for record i with the data of a
\* success envelope
EnrichedDefault(i) ==
    { renderTemplate(DEFAULT_TEMPLATE,
                     Context(games[i], StoreOf(games[i].steamAppID.v)), env)
        : env \in Environments }

\* C2: with the default template, a record whose artifact an earlier run
\* wrote with enrichment data (header image URL included) is skipped by the
\* next run: no fetch, no write.
C2_ResumeSkipsEnriched ==
    \A i \in Records :
        ( /\ template = DEFAULT_TEMPLATE
          /\ run >= 2
          /\ Truthy(games[i].steamAppID)
          /\ startFiles[NameOf(i)].exists
          /\ startFiles[NameOf(i)].text \in EnrichedDefault(i) )
        => Untouched(i)

\* C3: within a run, the start of every fetch attempt lies at least
\* DELAY_MS behind the start of the one before it.
C3_RateLimit == minGap >= DELAY_MS

C3_Witness ==
    \E i, j \in Records : i # j /\ netCalls[i] > 0 /\ netCalls[j] > 0

\* C4: records are processed one at a time in input order: at most one
\* request is in flight, only the record the loop stands on is in progress,
\* and a record has left Pending only if its predecessor is Skipped or has
\* been written and slept for.
C4_Sequential ==
    /\ inFlight <= 1
    /\ \A i \in Records :
          recState[i] \notin { "Pending", "Skipped", "Done" } => i = index
    /\ \A i \in Records :
          (i > 1 /\ recState[i] # "Pending") => recState[i - 1] \in { "Skipped", "Done" }

C4_Witness ==
    /\ Len(recState) >= 2
    /\ recState[1] = "Done"
    /\ recState[2] = "Fetching"
    /\ inFlight = 1

\* C5: once a run has ended by itself, every record of the batch is either
\* Skipped or has gone through Rendering and Writing and has its artifact
\* written.
C5_EveryRecordWritten ==
    pc \in { "done", "crashed" } =>
        \A i \in Records :
            \/ recState[i] = "Skipped"
            \/ recState[i] = "Done" /\ writes[i] = 1

\* C6: for a record whose steamAppID is absent or zero no request is issued,
\* it is rendered with storeData null, and its status is "Basic Info Only".
C6_NoIdNoRequest ==
    \A i \in Records :
        ~Truthy(games[i].steamAppID) =>
            /\ netCalls[i] = 0
            /\ (i = index /\ pc \in { "render", "write", "sleeping" })
                  => storeData = Null
            /\ (i = index /\ pc \in { "write", "sleeping" })
                  => \E env \in Environments :
                        fileContent = renderTemplate(template, Context(games[i], Null), env)
            /\ recState[i] \in { "Written", "Done" }
                  => console[i] = "Basic Info Only"

C6_Witness ==
    /\ pc = "done"
    /\ \E i, j \in Records :
          /\ games[i].steamAppID = Num(0)
          /\ games[j].steamAppID = Undefined
          /\ recState[i] = "Done"
          /\ recState[j] = "Done"

\* the response carries a success envelope for application id
IsSuccessEnvelope(r, id) ==
    /\ r.kind = "response"
    /\ r.body.parses
    /\ r.body.value.t = "object"
    /\ id \in DOMAIN r.body.value.entries
    /\ r.body.value.entries[id].success

\* C7: fetchSteamDetails resolves to null after a transport failure, a
\* non-success HTTP status (whatever the body), a body that is no valid
\* JSON, and an envelope whose success flag is false or whose entry is
\* missing.
C7_FailuresGiveNone ==
    ( /\ pc = "render"
      /\ resp.kind \in { "error", "response" }
      /\ \/ resp.kind = "error"
         \/ resp.status \notin 200..299
         \/ ~IsSuccessEnvelope(resp, Game.steamAppID.v) )
    => storeData = Null

\* C8: the enrichment value used for rendering is null or the whole data
\* object of a success envelope, and the text rendered after any failed
\* fetch (a body that is no JSON among them) is the text rendered without
\* enrichment.
C8_AllOrNothing ==
    (pc \in { "render", "write" } /\ resp.kind \in { "error", "response" }) =>
        LET id == Game.steamAppID.v IN
        /\ storeData # Null =>
              /\ IsSuccessEnvelope(resp, id)
              /\ storeData = resp.body.value.entries[id].data
        /\ (pc = "write" /\ ~IsSuccessEnvelope(resp, id)) =>
              \E env \in Environments :
                  fileContent = renderTemplate(template, Context(Game, Null), env)

C8_Witness ==
    /\ pc = "write"
    /\ resp.kind = "response"
    /\ ~resp.body.parses

\* the batch files of the input directory
Matching == { k \in 1..Len(inputDir.entries) : IsBatchName(inputDir.entries[k].name) }

\* C9: findLatestJsonFile returns the batch file with the greatest
\* modification time, and null when the directory is missing or holds no
\* batch file.
C9_LatestSelected ==
    pc \in Running \cup { "stalled", "done", "crashed" } =>
        IF Matching = {}
        THEN jsonPath = Null
        ELSE /\ jsonPath # Null
             /\ \A k \in Matching : inputDir.entries[k].time <= jsonPath.v.time

\* C10: a failed write of record i is reported for that record, distinctly
\* from a successful write, and the run goes on with the records behind it.
C10_WriteFailureIsolated ==
    \A i \in Records :
        recState[i] = "WriteFailed" =>
            /\ console[i] \notin { "none", "Processing", "Enriched", "Basic Info Only" }
            /\ pc \in Running \cup { "done" }

-----------------------------------------------------------------------------
(* Properties of renderTemplate *)

\* the record of the iteration as the batch file holds it
Loaded == jsonPath.v.data[index]

\* how often token x occurs in text
RECURSIVE Count(_, _)
Count(text, x) ==
    IF text = << >> THEN 0
    ELSE (IF Head(text) = x THEN 1 ELSE 0) + Count(Tail(text), x)

\* the template with every slot ${x} turned into the one literal token mark
RECURSIVE Mask(_, _, _)
Mask(t, x, mark) ==
    IF Len(t) >= 4 /\ SubSeq(t, 1, 4) = Slot(x)
    THEN << mark >> \o Mask(SubSeq(t, 5, Len(t)), x, mark)
    ELSE IF t = << >> THEN << >>
    ELSE << Head(t) >> \o Mask(Tail(t), x, mark)

\* the text with every token mark turned into the text by
RECURSIVE Fill(_, _, _)
Fill(text, mark, by) ==
    IF text = << >> THEN << >>
    ELSE (IF Head(text) = mark THEN by ELSE << Head(text) >>)
           \o Fill(Tail(text), mark, by)

\* the "Template Error evaluating" lines of the render
Diagnostics == SelectSeq(evalLog, LAMBDA entry : ~entry.ok)

\* C11: a slot whose evaluation raises (here the call of slugify, which the
\* context does not bind) comes out as its raw text, delimiters included, and
\* is reported once; everything else of the render is what it would be with
\* inert text in the slot's place; the render returns and the artifact is
\* written with that text.
C11_RaisedSlotKeptRaw ==
    /\ pc = "write" =>
          /\ \E env \in Environments :
                fileContent =
                    Fill(renderTemplate(Mask(template, xSlugify, "<raised>"),
                                        Context(Loaded, storeData), env),
                         "<raised>", Slot(xSlugify))
          /\ Diagnostics =
                [k \in 1..Count(template, xSlugify) |-> [code |-> << xSlugify >>, ok |-> FALSE]]
    /\ pc = "sleeping" => files[FilePath] = [exists |-> TRUE, text |-> fileContent]

C11_Witness ==
    /\ pc = "sleeping"
    /\ template = Slot(xName) \o Slot(xSlugify) \o Slot(xAppID)
    /\ files[FilePath].text = << "A" >> \o Slot(xSlugify) \o << "10" >>

\* the tokens of a text
Tokens(text) == { text[k] : k \in DOMAIN text }

\* C12: in every render, each slot whose expression returns undefined or
\* null leaves no text, and each slot whose expression returns another
\* value leaves String(value): the output is the render with the slot's
\* place taken by that text, and never reads "undefined" or "null".
C12_NullishRendersEmpty ==
    pc = "write" =>
        /\ \E env \in Environments :
              \A x \in Tokens(template) :
                  LET c == Context(Loaded, storeData)
                      r == EvalSlot(<< x >>, c, env)
                  IN  r.ok =>
                        fileContent =
                            Fill(renderTemplate(Mask(template, x, "<value>"), c, env),
                                 "<value>",
                                 IF r.val.t \in { "undefined", "null" }
                                 THEN << >> ELSE ToText(r.val))
        /\ Tokens(fileContent) \cap { "undefined", "null" } = {}

C12_Witness ==
    /\ pc = "write"
    /\ template = Slot(xAppID) \o << "- " >> \o Slot(xStoreData)
    /\ Loaded.steamAppID = Undefined
    /\ storeData = Null
    /\ fileContent = << "- " >>

\* the expressions of the slots of a template whose slots hold one token
\* each, in the order of the text
RECURSIVE SlotCodes(_)
SlotCodes(t) ==
    IF Len(t) < 4 THEN << >>
    ELSE IF t[1] = "$" /\ t[2] = "{" /\ t[4] = "}"
         THEN << << t[3] >> >> \o SlotCodes(SubSeq(t, 5, Len(t)))
         ELSE SlotCodes(Tail(t))

\* C13: a render evaluates the slots of the template once each, in the
\* order of the text, and nothing else; text a substitution brings in is
\* not evaluated: with a description that reads ${game.name}, the output
\* holds that text once for every slot that inserts the description.
C13_SinglePass ==
    pc = "write" =>
        /\ [k \in DOMAIN evalLog |-> evalLog[k].code] = SlotCodes(template)
        /\ storeData = StoreEcho =>
              /\ Count(fileContent, xName) = Count(template, xSummary)
              /\ Count(fileContent, "$") =
                    Count(template, xSummary) + Count(template, xSlugify)

C13_Witness ==
    /\ pc = "write"
    /\ template = Slot(xSummary) \o Slot(xName) \o Slot(xSummary)
    /\ fileContent = Slot(xName) \o << "A" >> \o Slot(xName)
    /\ Len(evalLog) = 3

\* C14: evaluating the slots of a template leaves the record as it was
\* loaded, and the output holds nothing of the process that is not in the
\* context (its working directory here).
C14_Sandboxed ==
    pc = "write" =>
        /\ games[index] = Loaded
        /\ \A env \in Environments : env.cwd \notin Tokens(fileContent)

\* C15: the text a render returned is the text renderTemplate returns for
\* the same template and the same context whenever and wherever it is called.
C15_Deterministic ==
    pc = "write" =>
        \A env \in Environments :
            fileContent = renderTemplate(template, Context(Loaded, storeData), env)

-----------------------------------------------------------------------------
(* Properties of runConversion: batch lookup, artifacts, delays *)

\* the input directory holds a file named as a batch
HoldsBatch ==
    \E k \in DOMAIN inputDir.entries :
        LET f == inputDir.entries[k].name
        IN  "SteamScrape" \in Tokens(f) /\ f[Len(f)] = ".json"

\* C16: when the input directory is missing or holds no batch file, a run
\* ends with the "No JSON files found" report and nothing else: no record,
\* no request, no artifact, no success line.
C16_NoBatchIsFatal ==
    (run >= 1 /\ ~HoldsBatch) =>
        /\ pc = "done"
        /\ outcome = "noBatch"
        /\ games = << >>
        /\ recState = << >>
        /\ netCalls = << >>
        /\ writes = << >>
        /\ inFlight = 0
        /\ \A f \in FileNames : ~files[f].exists

C16_Witness ==
    /\ run = 1
    /\ outcome = "noBatch"
    /\ inputDir.entries = << OtherFile >>

\* the record's artifact has been written by the current run
Completed(i) == recState[i] \in { "Written", "Done" }

\* every step leaves each artifact as it is, except the write of the record
\* the loop stands on, which puts that record's render under its name
ArtifactsStep ==
    \A f \in FileNames :
        /\ files[f].exists => files'[f].exists
        /\ files'[f] # files[f] =>
              /\ pc = "write"
              /\ recState[index] = "Writing"
              /\ f = NameOf(index)
              /\ files'[f] = [exists |-> TRUE, text |-> rendered[index]]
              /\ writes'[index] = writes[index] + 1

\* the artifact of every completed record holds that record's render
CompletedKeepText ==
    \A i \in Records :
        Completed(i) =>
            /\ files[NameOf(i)].exists
            /\ files[NameOf(i)].text = rendered[i]

\* C17 as stated: artifacts change by the write of their record only, none
\* is deleted or touched by a skip or by termination, and whenever the run
\* stops the artifact of every completed record holds that record's render.
C17_AsStated == []CompletedKeepText /\ [][ArtifactsStep]_vars

\* C17 amended: artifacts change by the write of their record only, none is
\* deleted or touched by a skip or by termination, and whenever the run
\* stops every artifact written by it holds the render of the last
\* completed record of its name.
C17_Lifecycle ==
    /\ [][ArtifactsStep]_vars
    /\ [](\A i \in Records :
            ( /\ Completed(i)
              /\ \A j \in Records : (j > i /\ NameOf(j) = NameOf(i)) => ~Completed(j) )
            => /\ files[NameOf(i)].exists
               /\ files[NameOf(i)].text = rendered[i])

C17_Witness ==
    /\ pc = "killed"
    /\ run = 2
    /\ \E f \in FileNames : files[f].exists /\ files[f] # startFiles[f]

\* C18: a record is delayed for once when it is completed, a skipped record
\* never, and a run that reaches its success line over a batch with k
\* records not skipped has slept k times (DELAY_MS each).
C18_DelayPerProcessed ==
    /\ \A i \in Records :
          /\ sleeps[i] <= 1
          /\ recState[i] = "Skipped" => sleeps[i] = 0
          /\ recState[i] = "Done" <=> sleeps[i] = 1
    /\ (pc = "done" /\ outcome = "success") =>
          Cardinality({ i \in Records : sleeps[i] = 1 })
            = Cardinality({ i \in Records : recState[i] # "Skipped" })
    /\ SleepMs = DELAY_MS

C18_Witness ==
    /\ pc = "done"
    /\ outcome = "success"
    /\ \E i, j \in Records :
          /\ recState[i] = "Skipped"
          /\ recState[j] = "Done" /\ netCalls[j] = 0 /\ sleeps[j] = 1

-----------------------------------------------------------------------------
(* Properties of runConversion: progress checkpoints *)

\* the step of the claim for a batch of n records
ClaimStep(n) ==
    IF n >= 100 THEN CHOOSE c \in 1..n : 10 * c >= n /\ 10 * (c - 1) < n
    ELSE IF n >= 10 THEN 10
    ELSE 0

\* the loop is behind record k, whatever it did with it
Handled(k) == recState[k] \in { "Skipped", "Written", "Done" }

\* C19 as stated: once the k-th record is handled, skipped or processed, a
\* checkpoint has been reported for it if k is a multiple of the step, and
\* a batch of fewer than 10 records reports none.
C19_AsStated ==
    LET n == Len(games) IN
    /\ \A k \in Records :
          (Handled(k) /\ ClaimStep(n) > 0 /\ k % ClaimStep(n) = 0) => k \in checkpoints
    /\ n < 10 => checkpoints = {}

\* C19 amended: a checkpoint is reported for the k-th record exactly when
\* that record has been written (not skipped), k is a multiple of the step
\* and k is not the last record; a batch of fewer than 10 records reports
\* none.
C19_Checkpoints ==
    LET n == Len(games) IN
    /\ \A k \in Records :
          k \in checkpoints <=>
              /\ Completed(k)
              /\ ClaimStep(n) > 0
              /\ k % ClaimStep(n) = 0
              /\ k < n
    /\ checkpoints \subseteq Records
    /\ n < 10 => checkpoints = {}

C19_Witness ==
    /\ Len(games) = 101
    /\ pc = "done"
    /\ 11 \in checkpoints
    /\ 10 \notin checkpoints
    /\ recState[99] = "Skipped"
    /\ 99 \notin checkpoints

-----------------------------------------------------------------------------
(* Properties of runConversion: records of one file name *)

\* records i before j of the batch sanitize to one file name
Collide(i, j) == i < j /\ NameOf(i) = NameOf(j)

\* C20 as stated: after a run that reached its success line, the artifact
\* of two records of one file name exists and holds the render of the later
\* record, which has written it.
C20_AsStated ==
    (pc = "done" /\ outcome = "success") =>
        \A i, j \in Records :
            Collide(i, j) =>
                /\ files[NameOf(j)].exists
                /\ recState[j] = "Done"
                /\ files[NameOf(j)].text = rendered[j]

\* C20 amended: after a run that reached its success line, the artifact of
\* two records of one file name exists; it holds the render of the later
\* record if that record was not skipped; the later record is skipped only
\* where the artifact bears the skip marker, and then it holds the render
\* of the earlier record if that one was written by the run.
C20_LaterWinsUnlessSkipped ==
    (pc = "done" /\ outcome = "success") =>
        \A i, j \in Records :
            Collide(i, j) =>
                /\ files[NameOf(j)].exists
                /\ recState[j] \in { "Done", "Skipped" }
                /\ recState[j] = "Done" => files[NameOf(j)].text = rendered[j]
                /\ recState[j] = "Skipped" =>
                      /\ BearsSkipMarker(files[NameOf(j)].text)
                      /\ recState[i] = "Done" =>
                            files[NameOf(j)].text = rendered[i]

C20_Witness ==
    /\ pc = "done"
    /\ outcome = "success"
    /\ \E i, j \in Records :
          /\ Collide(i, j)
          /\ recState[i] = "Done"
          /\ recState[j] = "Skipped"
          /\ files[NameOf(j)].text = rendered[i]

-----------------------------------------------------------------------------
(* The record titled "Foo: Bar" *)

\* the only record of the batch is "Foo: Bar" and this run has written it
FooWritten ==
    /\ pc \in { "sleeping", "done" }
    /\ games = << GameFoo >>
    /\ writes = << 1 >>

\* the artifacts that exist
Existing == { f \in DOMAIN files : files[f].exists }

\* what the default template shows of the record: playtime 0, last played
\* "Never", and nothing in the places of the enrichment fields
FooBasicText(text) ==
    /\ Includes(text, << "\nplaytimeHours: ", "0", "\nachievementsTotal: " >>)
    /\ Includes(text, << " (", "0", " hours)\n- **Last Played**: ", "Never",
                         "\n- **Completion**: " >>)
    /\ Includes(text, << "\nreleaseDate: ", "\ndevelopers:\n", "\npublishers:\n",
                         "\ngenres:\n",
                         "\nurl: https://store.steampowered.com/app/", "0",
                         "\nreleased: ", "false", "\nmetacriticRating: ", "0" >>)
    /\ Includes(text, << "\n", "image: ", "\n---\n![Cover](",
                         ")\n\n> [!summary] Description\n> ",
                         "\n\n# My Stats\n- **Status**: " >>)

\* C21 as stated: the artifact of the record titled "Foo: Bar" is named
\* FooBar, and under the default template it shows playtime 0, last played
\* "Never" and no enrichment field.
C21_AsStated ==
    FooWritten =>
        /\ Existing = { << "F", "o", "o", "B", "a", "r" >> }
        /\ netCalls = << 0 >> /\ storeData = Null
        /\ template = DEFAULT_TEMPLATE => FooBasicText(rendered[1])

\* C21: the artifact of the record titled "Foo: Bar" is named "Foo Bar" (the
\* colon is removed, the space inside the name stays) and holds the rendered
\* text; no request was made for it, and under the default template it shows
\* playtime 0, last played "Never" and no enrichment field.
C21_FooBarArtifact ==
    FooWritten =>
        /\ Existing = { << "F", "o", "o", " ", "B", "a", "r" >> }
        /\ \A f \in Existing : files[f].text = rendered[1]
        /\ netCalls = << 0 >> /\ storeData = Null
        /\ template = DEFAULT_TEMPLATE => FooBasicText(rendered[1])

C21_Witness ==
    /\ FooWritten
    /\ pc = "done" /\ outcome = "success"
    /\ template = DEFAULT_TEMPLATE
    /\ console = << "Basic Info Only" >>

-----------------------------------------------------------------------------
(* The template of a run *)

\* a run holds its template: from its start to its end or its crash
HoldsTemplate == run > 0 /\ pc \in Running \cup { "done", "crashed", "stalled" }

Warned == settingsLog = "Could not read settings file. Using default template."

\* the template a run holds, by its settings file
TemplateBySettings ==
    /\ settingsFile \in { "absent", "corrupt", "noTemplate" }
          => template = DEFAULT_TEMPLATE
    /\ settingsFile = "custom" => template = CustomTemplate

\* C22 as stated: a run whose settings file is absent, unreadable or without
\* markdownTemplate uses the default template and reports a warning; a run
\* whose settings file provides markdownTemplate uses that string.
C22_AsStated ==
    HoldsTemplate =>
        /\ TemplateBySettings
        /\ settingsFile \in { "absent", "corrupt", "noTemplate" } => Warned

\* C22: a run whose settings file is absent, unreadable or without
\* markdownTemplate uses the default template for every record, one whose
\* settings file provides markdownTemplate uses that string for every record;
\* the warning is reported exactly when the file exists and cannot be parsed.
C22_TemplateFallback ==
    HoldsTemplate =>
        /\ TemplateBySettings
        /\ Warned <=> settingsFile = "corrupt"

C22_Witness ==
    /\ pc = "write" /\ index = 2
    /\ settingsFile = "corrupt"
    /\ Warned
    /\ template = DEFAULT_TEMPLATE

-----------------------------------------------------------------------------
(* Fetch attempts *)

RECURSIVE SumOf(_)
SumOf(q) == IF q = << >> THEN 0 ELSE Head(q) + SumOf(Tail(q))

\* C23: within one run at most one request is issued per record, a failed
\* fetch included, and the requests of the run never outnumber the records
\* of its batch.
C23_SingleAttempt ==
    /\ \A i \in DOMAIN netCalls : netCalls[i] <= 1
    /\ SumOf(netCalls) <= Len(games)

\* a run ends with a request issued for each of its two records, the first
\* of which failed
C23_Witness ==
    /\ pc = "done" /\ outcome = "success"
    /\ netCalls = << 1, 1 >>
    /\ console[1] = "Basic Info Only"
    /\ console[2] = "Enriched"

-----------------------------------------------------------------------------
(* A failed enrichment and the next run *)

\* the loop stands before a record with a non-zero identifier whose artifact
\* an earlier run wrote with the default template and without enrichment
\* data, and the run holds the default template
BasicFromBefore ==
    /\ run > 1
    /\ template = DEFAULT_TEMPLATE
    /\ Truthy(Game.steamAppID) /\ Game.steamAppID # Num(0)
    /\ files[NameOf(index)].exists
    /\ files[NameOf(index)] = startFiles[NameOf(index)]
    /\ files[NameOf(index)].text
          \in { renderTemplate(DEFAULT_TEMPLATE, Context(Game, Null), env)
                  : env \in Environments }

RefetchStep ==
    (pc = "skipcheck" /\ BasicFromBefore)
        => \/ pc' = "fetching" /\ recState'[index] = "Fetching"
                               /\ netCalls'[index] = 1
           \/ pc' = "killed"

\* C24: with the default template, a record with a non-zero identifier whose
\* artifact an earlier run wrote with basic fields only (its fetch gave
\* nothing) is not skipped by the next run: the step the run takes at its
\* skip check issues the request again.
C24_RefetchAfterFailure == [][RefetchStep]_vars

\* the second run has issued the request for such a record
C24_Witness ==
    /\ pc = "fetching" /\ recState[index] = "Fetching"
    /\ BasicFromBefore
    /\ netCalls[index] = 1

-----------------------------------------------------------------------------
(* The records of the batch during a run *)

\* C25: while a run processes its batch, every record it holds equals the
\* record loaded from the batch file; a playtime or lastPlayed that was
\* loaded as false is still false, and the 0 that stands for it exists only
\* in the playtime binding of the context.
C25_RecordsImmutable ==
    pc \in Running \cup { "done" } =>
        \A i \in DOMAIN games :
            /\ games[i] = jsonPath.v.data[i]
            /\ jsonPath.v.data[i].playtime = JSFalse
                  => /\ games[i].playtime = JSFalse
                     /\ Context(games[i], Null).playtime = Num(0)

-----------------------------------------------------------------------------
(* The end of a run *)

\* a run that found its batch waits on a request that the remote source has
\* left unfinished: no step of the run is left, the success line is not
\* reached
WaitsForever == pc = "stalled" /\ resp = RespStall /\ inFlight > 0

\* C26: a run that found and parsed its batch is never left waiting on the
\* remote source without a step to take (so that it goes on to every record
\* and the success line), and the success line is printed only when every
\* record has been handled.
C26_RunFinishes ==
    /\ ~WaitsForever
    /\ (pc = "done" /\ outcome = "success")
          => \A i \in DOMAIN recState : recState[i] \in { "Skipped", "Done" }

-----------------------------------------------------------------------------
(* The render of a record and the records before it *)

\* C27: the text renderTemplate returns for a record is the text it returns
\* for the template, that record and the record's own fetch result in a
\* process that has rendered nothing before, whatever records the run has
\* rendered before it.
C27_IsolatedRender ==
    pc = "write" =>
        fileContent \in { renderTemplate(template, Context(Loaded, storeData), env)
                            : env \in Environments }

-----------------------------------------------------------------------------
(* The slots of a template *)

\* the position of the "}" that closes a slot whose expression starts at k,
\* the braces inside the expression paired off; 0 if there is none
RECURSIVE ClosingBrace(_, _, _)
ClosingBrace(t, k, depth) ==
    IF k > Len(t) THEN 0
    ELSE IF t[k] = "{" THEN ClosingBrace(t, k + 1, depth + 1)
    ELSE IF t[k] = "}"
         THEN IF depth = 0 THEN k ELSE ClosingBrace(t, k + 1, depth - 1)
    ELSE ClosingBrace(t, k + 1, depth)

\* the expressions of the slots of a template from position i on, each slot
\* reaching from its "${" to the "}" that closes it
RECURSIVE WholeSlots(_, _)
WholeSlots(t, i) ==
    IF i >= Len(t) THEN << >>
    ELSE IF t[i] = "$" /\ t[i + 1] = "{" /\ ClosingBrace(t, i + 2, 0) > i + 2
         THEN << SubSeq(t, i + 2, ClosingBrace(t, i + 2, 0) - 1) >>
              \o WholeSlots(t, ClosingBrace(t, i + 2, 0) + 1)
         ELSE WholeSlots(t, i + 1)

\* C28: the expressions a render evaluates are those of the slots of the
\* template, one for each slot in the order of the text, a slot reaching
\* from its opening to the brace that closes it even where the expression
\* holds braces of its own; the text outside the slots is all that the
\* render takes over as it stands.
C28_SlotsTakenWhole ==
    pc = "write" =>
        /\ [k \in DOMAIN evalLog |-> evalLog[k].code] = WholeSlots(template, 1)
        /\ Includes(template, BraceSlot)
              => ~Includes(fileContent, << ").a", "}" >>)

-----------------------------------------------------------------------------
(* The scraper and the conversion *)

\* every batch file there is, in the scraper's directory and in INPUT_DIR
AllBatchFiles ==
    { scrapeResults[k] : k \in DOMAIN scrapeResults }
    \cup { inputDir.entries[k] : k \in DOMAIN inputDir.entries }

\* the file the scraper wrote last
JustScraped == CHOOSE f \in AllBatchFiles : \A g \in AllBatchFiles : g.time <= f.time

\* the scraper of option 3 has closed with its batch file written, and the
\* next step is the start of runConversion
HandOffStep ==
    pc = "scraped" =>
        /\ jsonPath' # Null
        /\ jsonPath'.v = JustScraped
        /\ outcome' # "noBatch"

\* C29: the conversion that option 3 starts when the scraper has closed reads
\* the batch file that this scraper run has written.
C29_HandOff == [][HandOffStep]_vars

\* C30: every record of every batch file the scraper has written carries a
\* numeric steamAppID, and a run over such a batch issues requests.
C30_ScrapedCarryId ==
    /\ \A k \in DOMAIN scrapeResults :
          \A i \in DOMAIN scrapeResults[k].data :
              scrapeResults[k].data[i].steamAppID.t = "number"
    /\ (pc = "done" /\ outcome = "success" /\ games # << >>)
          => SumOf(netCalls) > 0


-----------------------------------------------------------------------------
(* The completion rate *)

\* 100 * my / total rounded to the nearest integer, a half going up
NearestPercent(my, total) == (200 * my + total) \div (2 * total)

\* C31: the completion rate a record's artifact shows is 0 when
\* totalAchievements is 0, otherwise 100 * myAchievements / totalAchievements
\* rounded to the nearest integer; with myAchievements between 0 and
\* totalAchievements it lies in 0..100.
C31_CompletionRate ==
    pc = "write" =>
        LET my == Loaded.myAchievements
            total == Loaded.totalAchievements
            rate == IF total = 0 THEN 0 ELSE NearestPercent(my, total)
        IN  /\ fileContent = << ToString(rate), "%" >>
            /\ \E c \in 0..100 : fileContent = << ToString(c), "%" >>

=========================================================================
